---- MODULE Spec2Model ----
(***************************************************************************)
(* Debt-settlement engine of the trip-expense tracker (GastosView in       *)
(* src/App.tsx): totalTripCost, expensesByCategory, expensesByParticipant  *)
(* and settledPayments, and the handlers of App that create trips and add  *)
(* or delete expenses.                                                     *)
(*                                                                         *)
(* Arithmetic is exact.  Amounts are integers counted in thousandths of a  *)
(* currency unit, so the literal 0.005 of the source is EPS = 5.  The      *)
(* average share totalTripCost / participants.length is a rational; every  *)
(* balance, transfer and payment amount is therefore kept multiplied by    *)
(* n = participants.length (the common denominator), and every comparison  *)
(* against 0.005 is made against EPS * n.  A stored value v stands for the *)
(* currency amount v / (1000 * n).                                         *)
(***************************************************************************)
EXTENDS Integers, Sequences, FiniteSets, TLC

VARIABLES
    participants,          \* trip.participants, as the sequence of p.name
    expenses,              \* the expenses of the active trip: [amount, paidBy]
    totalTripCost,         \* useMemo totalTripCost
    expensesByCategory,    \* useMemo expensesByCategory: category -> total
    expensesByParticipant, \* useMemo expensesByParticipant: name -> total
    balances,              \* Object.entries(balances): <<name, amt * n>>
    debtors,               \* sorted debtor entries, updated in place
    creditors,             \* sorted creditor entries, updated in place
    dIdx,                  \* cursor into debtors (0-based as in the source)
    cIdx,                  \* cursor into creditors (0-based)
    payments,              \* SettledPayment[]: [from, to, amount * n]
    iters,                 \* number of executions of the while body
    pc,                    \* "render" | "aggregated" | "loop" | "done",
                           \* or "dashboard" when no trip view is mounted
    trips,                 \* useLocalStorage trips: [id, name, participants]
    stored,                \* useLocalStorage expenses, of every trip
    activeTripId,          \* useLocalStorage activeTripId; NoTrip is null
    lastError              \* the last alert or formError shown, "" if none

appVars == <<trips, stored, activeTripId, lastError>>

vars == <<participants, expenses, totalTripCost, expensesByCategory,
          expensesByParticipant, balances, debtors, creditors, dIdx, cIdx,
          payments, iters, pc, appVars>>

-----------------------------------------------------------------------------
(* Bounds of the model *)

MaxParticipants == 3
MaxExpenses == 2
MaxParty == 5
MaxAnyParticipants == 3

(* Program constant: the tolerance 0.005, in thousandths *)
EPS == 5

Names == {"Ana", "Juan", "7"}
Amounts == {10, 25, 35, 90000}

PartyNames == <<"Ana", "Juan", "Eva", "Luis", "Marta", "Noa">>
PartyAmounts == {10, 20, 27, 100, 110}

AnyNames == {"Ana", "Juan", "Eva"}
AnyPayers == {"Ana", "Juan", "Eva", "Zed"}
AnyAmounts == {-20, 0, 20}
PartialAmounts == {10, 20}

\* CATEGORIES = Object.values(ExpenseCategory)
CATEGORIES == <<"Alojamiento", "Actividades", "Comida", "Transporte",
                "Entradas", "Compras", "Otros">>

CategoryPayers == <<"Ana", "Juan">>
CategoryAmounts == {15, 40}
UnlistedCategories == {"Alojamiento", "Otros", "Propinas"}
UnlistedPayers == {"Ana", "Zed"}

\* activeTripId === null
NoTrip == 0

\* Bounds of the application model
MaxTrips == 2
MaxStored == 2

\* values of Date.now(); an id `trip-${Date.now()}` or `exp-${Date.now()}`
\* is kept as its timestamp
Clock == {1, 2}

\* texts typed into the forms; a participants text is given as the pieces
\* participantsStr.split(',') cuts it into
TripNames == {"", " ", "Roma"}
ParticipantTexts == {<<"">>, <<" ", "">>, <<"Ana">>, <<"Ana", " Ana">>,
                     <<"Ana", "", "Juan">>}
AmountTexts == {"", " ", "abc", "0", "-5", "10", "10,0", "10abc"}
FormCategories == {CATEGORIES[1]}

\* expense data handed to addExpense
ExpenseData ==
    [amount : {10000}, paidBy : {"Ana", "Juan"}, category : FormCategories]
DirectData == {d \in ExpenseData : d.paidBy = "Ana"}

-----------------------------------------------------------------------------
(* Helpers *)

Abs(x) == IF x < 0 THEN -x ELSE x

Min(a, b) == IF a < b THEN a ELSE b

Range(s) == {s[i] : i \in 1..Len(s)}

SeqsUpTo(S, lo, hi) == UNION {[1..k -> S] : k \in lo..hi}

RECURSIVE SumAmounts(_)
\* expenses.reduce((sum, exp) => sum + exp.amount, 0)
SumAmounts(exps) ==
    IF exps = <<>> THEN 0
    ELSE SumAmounts(SubSeq(exps, 1, Len(exps) - 1)) + exps[Len(exps)].amount

\* m[k] || 0 : an absent key reads undefined, and undefined || 0 is 0
Lookup(m, k) == IF k \in DOMAIN m THEN m[k] ELSE 0

\* variant: an expense whose payer has no key is dropped
AddExpensesKnown(m, exps) ==
    [k \in DOMAIN m |->
        m[k] + SumAmounts(SelectSeq(exps, LAMBDA e : e.paidBy = k))]

RECURSIVE AddExpenses(_, _)
\* expenses.forEach(exp => byParticipant[exp.paidBy] =
\*                         (byParticipant[exp.paidBy] || 0) + exp.amount)
AddExpenses(m, exps) ==
    IF exps = <<>> THEN m
    ELSE LET prev == AddExpenses(m, SubSeq(exps, 1, Len(exps) - 1))
             e == exps[Len(exps)]
         IN  [k \in (DOMAIN prev) \cup {e.paidBy} |->
                 IF k = e.paidBy THEN Lookup(prev, k) + e.amount ELSE prev[k]]

\* variant: only the payers get a key
ByParticipantPayers(exps, parts) == AddExpenses(<<>>, exps)

\* trip.participants.forEach(p => byParticipant[p.name] = 0), then the
\* expenses
ByParticipant(exps, parts) ==
    AddExpenses([k \in Range(parts) |-> 0], exps)

\* variant: only the categories that have an expense get a key
ByCategoryUsed(exps) ==
    [c \in {exps[i].category : i \in 1..Len(exps)} |->
        SumAmounts(SelectSeq(exps, LAMBDA e : e.category = c))]

RECURSIVE AddByCategory(_, _)
\* expenses.forEach(exp => byCategory[exp.category] =
\*                         (byCategory[exp.category] || 0) + exp.amount)
AddByCategory(m, exps) ==
    IF exps = <<>> THEN m
    ELSE LET prev == AddByCategory(m, SubSeq(exps, 1, Len(exps) - 1))
             e == exps[Len(exps)]
         IN  [k \in (DOMAIN prev) \cup {e.category} |->
                 IF k = e.category THEN Lookup(prev, k) + e.amount
                 ELSE prev[k]]

\* CATEGORIES.forEach(cat => byCategory[cat] = 0), then the expenses
ByCategory(exps) == AddByCategory([c \in Range(CATEGORIES) |-> 0], exps)

\* Names that are canonical array indices: Object.entries lists these first,
\* in ascending numeric order, before the other keys in insertion order.
IntegerKeys == {"7"}
KeyValue(k) == CASE k = "7" -> 7

RECURSIVE FirstOccurrences(_)
FirstOccurrences(s) ==
    IF s = <<>> THEN <<>>
    ELSE LET init == FirstOccurrences(SubSeq(s, 1, Len(s) - 1))
         IN  IF s[Len(s)] \in Range(init) THEN init
             ELSE Append(init, s[Len(s)])

RECURSIVE AscendingKeys(_)
AscendingKeys(S) ==
    IF S = {} THEN <<>>
    ELSE LET k == CHOOSE x \in S : \A y \in S : KeyValue(x) <= KeyValue(y)
         IN  <<k>> \o AscendingKeys(S \ {k})

IsStringKey(k) == k \notin IntegerKeys

ObjectKeys(inserted) ==
    AscendingKeys(Range(inserted) \cap IntegerKeys)
        \o SelectSeq(FirstOccurrences(inserted), IsStringKey)

\* variant: a participant without a key in the totals gets balance zero
BalanceOfKnown(byP, total, n, name) ==
    IF name \in DOMAIN byP THEN n * byP[name] - total ELSE 0

\* balances[p.name] = (expensesByParticipant[p.name] || 0) - avgCost, times n
BalanceOf(byP, total, n, name) == n * Lookup(byP, name) - total

BalanceEntries(byP, total, parts) ==
    LET keys == ObjectKeys(parts)
    IN  [i \in 1..Len(keys) |->
            <<keys[i], BalanceOf(byP, total, Len(parts), keys[i])>>]

\* variant: every negative balance is a debt
IsDebtorBelowZero(e, n) == e[2] < 0

\* .filter(([, amt]) => amt < -0.005) and .filter(([, amt]) => amt > 0.005)
IsDebtor(e, n) == e[2] < -(EPS * n)
IsCreditor(e, n) == e[2] > EPS * n

RECURSIVE Filter(_, _, _)
Filter(s, n, wantDebtors) ==
    IF s = <<>> THEN <<>>
    ELSE LET rest == Filter(Tail(s), n, wantDebtors)
             keep == IF wantDebtors THEN IsDebtor(Head(s), n)
                     ELSE IsCreditor(Head(s), n)
         IN  IF keep THEN <<Head(s)>> \o rest ELSE rest

\* variant: an unstable insertion, e goes before the elements it ties with
InsertTiesFirst(s, e, ascending) ==
    LET cmp(i) == IF ascending THEN s[i][2] - e[2] ELSE e[2] - s[i][2]
        later == {i \in 1..Len(s) : cmp(i) >= 0}
        k == IF later = {} THEN Len(s) + 1
             ELSE CHOOSE i \in later : \A j \in later : i <= j
    IN  SubSeq(s, 1, k - 1) \o <<e>> \o SubSeq(s, k, Len(s))

RECURSIVE InsertSorted(_, _, _)
\* stable insertion: e goes after every element that does not compare greater
InsertSorted(s, e, ascending) ==
    IF s = <<>> THEN <<e>>
    ELSE LET cmp == IF ascending THEN s[1][2] - e[2] ELSE e[2] - s[1][2]
         IN  IF cmp > 0 THEN <<e>> \o s
             ELSE <<s[1]>> \o InsertSorted(Tail(s), e, ascending)

RECURSIVE StableSort(_, _)
\* Array.prototype.sort with comparator (a,b) => a[1]-b[1] (ascending) or
\* (a,b) => b[1]-a[1] (descending); the sort is stable
StableSort(s, ascending) ==
    IF s = <<>> THEN <<>>
    ELSE InsertSorted(StableSort(SubSeq(s, 1, Len(s) - 1), ascending),
                      s[Len(s)], ascending)

RECURSIVE Magnitudes(_, _)
Magnitudes(s, n) ==
    IF s = <<>> THEN <<>>
    ELSE LET rest == Magnitudes(Tail(s), n)
         IN  IF Abs(Head(s)[2]) > EPS * n
             THEN <<<<Head(s)[1], Abs(Head(s)[2])>>>> \o rest
             ELSE rest

\* variant: creditors selected and ranked by Math.abs of the balance
CreditorsByMagnitude(bal, n) == StableSort(Magnitudes(bal, n), FALSE)

\* variant: the debtors are left in the order of Object.entries
DebtorsUnsorted(bal, n) == Filter(bal, n, TRUE)

\* variant: the creditors are sorted ascending
CreditorsSmallestFirst(bal, n) == StableSort(Filter(bal, n, FALSE), TRUE)

Debtors(bal, n) == StableSort(Filter(bal, n, TRUE), TRUE)
Creditors(bal, n) == StableSort(Filter(bal, n, FALSE), FALSE)

-----------------------------------------------------------------------------
(* Inputs *)

\* category: CATEGORIES[0] is the category the expense form starts with
ExpenseLists(payers, amounts, maxLen) ==
    SeqsUpTo([amount : amounts, paidBy : payers, category : {CATEGORIES[1]}],
             0, maxLen)

\* the application state is left out of the inputs of the engine
NoApp ==
    /\ trips = <<>>
    /\ stored = <<>>
    /\ activeTripId = NoTrip
    /\ lastError = ""

Start(parts, exps) ==
    /\ participants = parts
    /\ expenses = exps
    /\ totalTripCost = 0
    /\ expensesByCategory = <<>>
    /\ expensesByParticipant = <<>>
    /\ balances = <<>>
    /\ debtors = <<>>
    /\ creditors = <<>>
    /\ dIdx = 0
    /\ cIdx = 0
    /\ payments = <<>>
    /\ iters = 0
    /\ pc = "render"
    /\ NoApp

\* A trip created by handleCreateTrip (one or more non-empty names, repeats
\* allowed) with expenses entered through the form (amount > 0, payer chosen
\* among the trip's participants)
InitTrip ==
    \E parts \in SeqsUpTo(Names, 1, MaxParticipants) :
        \E exps \in ExpenseLists(Range(parts), Amounts, MaxExpenses) :
            Start(parts, exps)

RECURSIVE OnePerPayer(_, _)
\* expense lists with at most one expense per participant, in list order
OnePerPayer(parts, amounts) ==
    IF parts = <<>> THEN {<<>>}
    ELSE LET rest == OnePerPayer(Tail(parts), amounts)
         IN  rest \cup
             {<<[amount |-> a, paidBy |-> Head(parts),
                 category |-> CATEGORIES[1]]>> \o r :
                 a \in amounts, r \in rest}

\* Larger parties with pairwise distinct names
InitParty ==
    \E n \in 4..MaxParty :
        \E exps \in OnePerPayer(SubSeq(PartyNames, 1, n), PartyAmounts) :
            Start(SubSeq(PartyNames, 1, n), exps)

\* Expenses of every category of the form's select
InitCategories ==
    \E exps \in SeqsUpTo([amount : CategoryAmounts,
                          paidBy : Range(CategoryPayers),
                          category : Range(CATEGORIES)], 0, MaxExpenses) :
        Start(CategoryPayers, exps)

Init == InitTrip \/ InitParty \/ InitCategories

\* Inputs the forms cannot produce: an empty participant list, amounts that
\* are zero or negative, payers that are not participants of the trip
InitMalformed ==
    \E parts \in SeqsUpTo(AnyNames, 0, MaxAnyParticipants) :
        \E exps \in ExpenseLists(AnyPayers, AnyAmounts, MaxExpenses) :
            Start(parts, exps)

\* ... or a category that is not in the enumeration
InitUnlisted ==
    \E exps \in SeqsUpTo([amount : CategoryAmounts,
                          paidBy : UnlistedPayers,
                          category : UnlistedCategories], 0, MaxExpenses) :
        Start(CategoryPayers, exps)

Restrict(m, keys) == [k \in keys |-> m[k]]

\* settledPayments entered with a totals mapping that lacks the keys of
\* some of the participants who paid nothing
InitPartial ==
    \E parts \in SeqsUpTo(AnyNames, 1, MaxAnyParticipants) :
        \E exps \in ExpenseLists(Range(parts), PartialAmounts, MaxExpenses) :
            LET full == ByParticipant(exps, parts)
            IN  \E absent \in
                       (SUBSET {k \in Range(parts) : full[k] = 0}) \ {{}} :
                    /\ participants = parts
                    /\ expenses = exps
                    /\ totalTripCost = SumAmounts(exps)
                    /\ expensesByCategory = ByCategory(exps)
                    /\ expensesByParticipant =
                           Restrict(full, (DOMAIN full) \ absent)
                    /\ balances = <<>>
                    /\ debtors = <<>>
                    /\ creditors = <<>>
                    /\ dIdx = 0
                    /\ cIdx = 0
                    /\ payments = <<>>
                    /\ iters = 0
                    /\ pc = "aggregated"
                    /\ NoApp

InitAny == Init \/ InitMalformed \/ InitUnlisted

InitTotals == InitAny \/ InitPartial

-----------------------------------------------------------------------------
(* Operations *)

\* useMemo totalTripCost, expensesByCategory and expensesByParticipant
Aggregate ==
    /\ pc = "render"
    /\ totalTripCost' = SumAmounts(expenses)
    /\ expensesByCategory' = ByCategory(expenses)
    /\ expensesByParticipant' = ByParticipant(expenses, participants)
    /\ pc' = "aggregated"
    /\ UNCHANGED <<participants, expenses, balances, debtors, creditors,
                   dIdx, cIdx, payments, iters, appVars>>

\* variant: && in place of ||
ReturnsEarlyBoth(n, total) == n < 2 /\ total = 0

\* if (trip.participants.length < 2 || totalTripCost === 0) return [];
ReturnsEarly(n, total) == n < 2 \/ total = 0

\* useMemo settledPayments: the guard clause returns []
SettleGuard ==
    /\ pc = "aggregated"
    /\ ReturnsEarly(Len(participants), totalTripCost)
    /\ payments' = <<>>
    /\ pc' = "done"
    /\ UNCHANGED <<participants, expenses, totalTripCost,
                   expensesByCategory, expensesByParticipant, balances,
                   debtors, creditors, dIdx, cIdx, iters, appVars>>

\* useMemo settledPayments: balances, debtors, creditors, cursors
SettleStart ==
    /\ pc = "aggregated"
    /\ ~ReturnsEarly(Len(participants), totalTripCost)
    /\ LET bal == BalanceEntries(expensesByParticipant, totalTripCost,
                                 participants)
       IN  /\ balances' = bal
           /\ debtors' = Debtors(bal, Len(participants))
           /\ creditors' = Creditors(bal, Len(participants))
    /\ payments' = <<>>
    /\ dIdx' = 0
    /\ cIdx' = 0
    /\ pc' = "loop"
    /\ UNCHANGED <<participants, expenses, totalTripCost,
                   expensesByCategory, expensesByParticipant, iters, appVars>>

\* variant: half of the smaller balance is transferred
TransferHalf(d, c) == (Min(-d, c) + 1) \div 2

\* variant: the creditor's whole balance is transferred
TransferCredit(d, c) == c

\* variant: Math.max in place of Math.min
TransferMax(d, c) == IF -d > c THEN -d ELSE c

\* variant: a third of the smaller balance is transferred
TransferThird(d, c) == (Min(-d, c) + 2) \div 3

\* Math.min(-debtors[dIdx][1], creditors[cIdx][1])
Transfer(d, c) == Min(-d, c)

\* variant: transfer >= 0.005
EmitsAtLeast(transfer, n) == transfer >= EPS * n

\* if (transfer > 0.005) payments.push(...)
Emits(transfer, n) == transfer > EPS * n

\* variant: the comparison is the wrong way round
SettledFlipped(amt, n) == Abs(amt) > EPS * n

\* variant: 0.05 in place of 0.005
SettledLoose(amt, n) == Abs(amt) < 10 * EPS * n

\* variant: a party is settled only when nothing at all is left
SettledAtZero(amt, n) == amt = 0

\* if (Math.abs(entry[1]) < 0.005) idx++
Settled(amt, n) == Abs(amt) < EPS * n

\* variant: the debtor and creditor entries are not copies, the subtraction
\* is written through to the totals mapping
LoopStepShared ==
    /\ pc = "loop"
    /\ dIdx < Len(debtors) /\ cIdx < Len(creditors)
    /\ LET n == Len(participants)
           d == debtors[dIdx + 1]
           c == creditors[cIdx + 1]
           transfer == Transfer(d[2], c[2])
           dNew == d[2] + transfer
           cNew == c[2] - transfer
       IN  /\ payments' = IF Emits(transfer, n)
                          THEN Append(payments,
                                 [from |-> d[1], to |-> c[1],
                                  amount |-> transfer])
                          ELSE payments
           /\ debtors' = [debtors EXCEPT ![dIdx + 1] = <<d[1], dNew>>]
           /\ creditors' = [creditors EXCEPT ![cIdx + 1] = <<c[1], cNew>>]
           /\ expensesByParticipant' =
                  [k \in DOMAIN expensesByParticipant |->
                      IF k = d[1] THEN dNew
                      ELSE IF k = c[1] THEN cNew
                      ELSE expensesByParticipant[k]]
           /\ dIdx' = IF Settled(dNew, n) THEN dIdx + 1 ELSE dIdx
           /\ cIdx' = IF Settled(cNew, n) THEN cIdx + 1 ELSE cIdx
    /\ iters' = iters + 1
    /\ UNCHANGED <<participants, expenses, totalTripCost,
                   expensesByCategory, balances, pc, appVars>>

\* one execution of the body of the while loop
LoopStep ==
    /\ pc = "loop"
    /\ dIdx < Len(debtors) /\ cIdx < Len(creditors)
    /\ LET n == Len(participants)
           d == debtors[dIdx + 1]
           c == creditors[cIdx + 1]
           transfer == Transfer(d[2], c[2])
           dNew == d[2] + transfer
           cNew == c[2] - transfer
       IN  /\ payments' = IF Emits(transfer, n)
                          THEN Append(payments,
                                 [from |-> d[1], to |-> c[1],
                                  amount |-> transfer])
                          ELSE payments
           /\ debtors' = [debtors EXCEPT ![dIdx + 1] = <<d[1], dNew>>]
           /\ creditors' = [creditors EXCEPT ![cIdx + 1] = <<c[1], cNew>>]
           /\ dIdx' = IF Settled(dNew, n) THEN dIdx + 1 ELSE dIdx
           /\ cIdx' = IF Settled(cNew, n) THEN cIdx + 1 ELSE cIdx
    /\ iters' = iters + 1
    /\ UNCHANGED <<participants, expenses, totalTripCost,
                   expensesByCategory, expensesByParticipant, balances, pc,
                   appVars>>

\* the loop condition fails: return payments
LoopExit ==
    /\ pc = "loop"
    /\ ~(dIdx < Len(debtors) /\ cIdx < Len(creditors))
    /\ pc' = "done"
    /\ UNCHANGED <<participants, expenses, totalTripCost,
                   expensesByCategory, expensesByParticipant, balances,
                   debtors, creditors, dIdx, cIdx, payments, iters, appVars>>

Next == Aggregate \/ SettleGuard \/ SettleStart \/ LoopStep \/ LoopExit

Spec == Init /\ [][Next]_vars

\* The same operations started from arbitrary inputs
SpecAny == InitAny /\ [][Next]_vars

\* ... and from totals mappings that lack keys
SpecTotals == InitTotals /\ [][Next]_vars

-----------------------------------------------------------------------------
(* Application: trips and expenses kept by App, and the forms *)

\* String.prototype.trim on the texts of the model
Trim(str) ==
    CASE str = " Ana" -> "Ana"
      [] str = " " -> ""
      [] OTHER -> str

\* String.prototype.replace(',', '.'): the first comma only
ReplaceComma(str) ==
    CASE str = "10,0" -> "10.0"
      [] OTHER -> str

\* parseFloat, in thousandths: <<v>> for a number v, <<>> for NaN.  The
\* longest numeric prefix is parsed and what follows it is ignored.
parseFloat(str) ==
    CASE str = "0" -> <<0>>
      [] str = "-5" -> <<-5000>>
      [] str = "10" -> <<10000>>
      [] str = "10.0" -> <<10000>>
      [] str = "10abc" -> <<10000>>
      [] OTHER -> <<>>

isNaN(num) == num = <<>>

\* participantsStr.split(',').map(p => p.trim()).filter(p => p)
ParticipantNames(tokens) ==
    SelectSeq([i \in 1..Len(tokens) |-> Trim(tokens[i])], LAMBDA p : p # "")

\* variant: the trip name is not looked at
RejectsTripUnnamed(name, names) ==
    Len(names) = 0 \/ \E i \in 1..Len(names) : Trim(names[i]) = ""

\* !name.trim() || participantNames.length === 0 ||
\* participantNames.some(p => !p.trim())
RejectsTrip(name, names) ==
    \/ Trim(name) = ""
    \/ Len(names) = 0
    \/ \E i \in 1..Len(names) : Trim(names[i]) = ""

\* trips.find(trip => trip.id === activeTripId) || null
ActiveTrip(tr, id) ==
    LET found == SelectSeq(tr, LAMBDA t : t.id = id)
    IN  IF found = <<>> THEN <<>> ELSE <<found[1]>>

RECURSIVE NewestFirst(_)
\* .sort((a, b) => new Date(b.date) - new Date(a.date) ||
\*                 b.id.localeCompare(a.id)): every expense of the model has
\* the date the form starts with, so the order is by id, descending; the
\* sort is stable
NewestFirst(s) ==
    IF s = <<>> THEN <<>>
    ELSE LET init == NewestFirst(SubSeq(s, 1, Len(s) - 1))
             e == s[Len(s)]
             older == {i \in 1..Len(init) : init[i].id < e.id}
             k == IF older = {} THEN Len(init) + 1
                  ELSE CHOOSE i \in older : \A j \in older : i <= j
         IN  SubSeq(init, 1, k - 1) \o <<e>> \o SubSeq(init, k, Len(init))

\* useMemo activeTripExpenses
ActiveTripExpenses(st, id) ==
    IF id = NoTrip THEN <<>>
    ELSE NewestFirst(SelectSeq(st, LAMBDA e : e.tripId = id))

\* variant: dependency list [activeTripId]
MemoStaleOnTripChange(idChanged, expensesSet) == idChanged

\* dependency list [activeTripId, expenses] of activeTripExpenses: the memo
\* is recomputed when the id differs or setExpenses has stored a new array
MemoStale(idChanged, expensesSet) == idChanged \/ expensesSet

\* the locals of settledPayments do not outlive a render
NoLocals ==
    /\ balances' = <<>>
    /\ debtors' = <<>>
    /\ creditors' = <<>>
    /\ dIdx' = 0
    /\ cIdx' = 0
    /\ iters' = 0

\* the trip view is mounted: nothing is memoized yet.  (The view effect
\* shows the trip only if trips.find(t => t.id === activeTripId).)
Mount(tr, st, id) ==
    /\ participants' = ActiveTrip(tr, id)[1].participants
    /\ expenses' = ActiveTripExpenses(st, id)
    /\ totalTripCost' = 0
    /\ expensesByCategory' = <<>>
    /\ expensesByParticipant' = <<>>
    /\ payments' = <<>>
    /\ NoLocals
    /\ pc' = "render"

\* the dashboard is shown and GastosView is unmounted
Unmount ==
    /\ participants' = <<>>
    /\ expenses' = <<>>
    /\ totalTripCost' = 0
    /\ expensesByCategory' = <<>>
    /\ expensesByParticipant' = <<>>
    /\ payments' = <<>>
    /\ NoLocals
    /\ pc' = "dashboard"

\* App renders again after setExpenses(st) while the trip view is mounted
Rerender(st) ==
    /\ IF MemoStale(FALSE, TRUE)
       THEN /\ expenses' = ActiveTripExpenses(st, activeTripId)
            /\ pc' = "render"
       ELSE UNCHANGED <<expenses, pc>>
    /\ NoLocals
    /\ UNCHANGED <<participants, totalTripCost, expensesByCategory,
                   expensesByParticipant, payments>>

InitApp ==
    /\ participants = <<>>
    /\ expenses = <<>>
    /\ totalTripCost = 0
    /\ expensesByCategory = <<>>
    /\ expensesByParticipant = <<>>
    /\ balances = <<>>
    /\ debtors = <<>>
    /\ creditors = <<>>
    /\ dIdx = 0
    /\ cIdx = 0
    /\ payments = <<>>
    /\ iters = 0
    /\ pc = "dashboard"
    /\ NoApp

\* TripCreateForm.handleSubmit followed by handleCreateTrip
CreateTrip(name, tokens) ==
    /\ pc = "dashboard"
    /\ LET participantNames == ParticipantNames(tokens)
       IN  IF participantNames = <<>>
           THEN /\ lastError' = "participants"
                /\ UNCHANGED <<participants, expenses, totalTripCost,
                               expensesByCategory, expensesByParticipant,
                               balances, debtors, creditors, dIdx, cIdx,
                               payments, iters, pc, trips, stored,
                               activeTripId>>
           ELSE IF RejectsTrip(name, participantNames)
           THEN /\ lastError' = "trip"
                /\ UNCHANGED <<participants, expenses, totalTripCost,
                               expensesByCategory, expensesByParticipant,
                               balances, debtors, creditors, dIdx, cIdx,
                               payments, iters, pc, trips, stored,
                               activeTripId>>
           ELSE /\ Len(trips) < MaxTrips
                /\ \E now \in Clock :
                      /\ trips' = Append(trips,
                             [id |-> now, name |-> name,
                              participants |->
                                  [i \in 1..Len(participantNames) |->
                                      Trim(participantNames[i])]])
                      /\ activeTripId' = now
                      /\ Mount(trips', stored, now)
                /\ lastError' = ""
                /\ UNCHANGED stored

handleCreateTrip ==
    \E name \in TripNames, tokens \in ParticipantTexts :
        CreateTrip(name, tokens)

\* "Abrir" on the dashboard: setActiveTripId(trip.id)
OpenTrip ==
    /\ pc = "dashboard"
    /\ \E i \in 1..Len(trips) :
          /\ activeTripId' = trips[i].id
          /\ Mount(trips, stored, trips[i].id)
    /\ lastError' = ""
    /\ UNCHANGED <<trips, stored>>

\* navigateBack: () => setActiveTripId(null)
navigateBack ==
    /\ pc = "done"
    /\ activeTripId # NoTrip
    /\ activeTripId' = NoTrip
    /\ lastError' = ""
    /\ Unmount
    /\ UNCHANGED <<trips, stored>>

\* variant: the expense is stored whether or not a trip is active
AddExpenseAlways(expenseData, now) ==
    /\ stored' = Append(stored,
           [id |-> now, tripId |-> activeTripId,
            amount |-> expenseData.amount, paidBy |-> expenseData.paidBy,
            category |-> expenseData.category])
    /\ Rerender(stored')

\* handleAddExpense(expenseData), with the value of Date.now()
AddExpense(expenseData, now) ==
    IF activeTripId = NoTrip
    THEN UNCHANGED <<participants, expenses, totalTripCost,
                     expensesByCategory, expensesByParticipant, balances,
                     debtors, creditors, dIdx, cIdx, payments, iters, pc,
                     stored>>
    ELSE /\ stored' = Append(stored,
                [id |-> now, tripId |-> activeTripId,
                 amount |-> expenseData.amount,
                 paidBy |-> expenseData.paidBy,
                 category |-> expenseData.category])
         /\ Rerender(stored')

\* handleAddExpenseSubmit followed by handleAddExpense
AddExpenseSubmit(amount, paidBy, category) ==
    /\ pc = "done"
    /\ activeTripId # NoTrip
    /\ LET amountStr == ReplaceComma(Trim(amount))
           numericAmount == parseFloat(amountStr)
           rejected(msg) ==
               /\ lastError' = msg
               /\ UNCHANGED <<participants, expenses, totalTripCost,
                              expensesByCategory, expensesByParticipant,
                              balances, debtors, creditors, dIdx, cIdx,
                              payments, iters, pc, trips, stored,
                              activeTripId>>
       IN  IF \/ amountStr = ""
              \/ (~isNaN(numericAmount) /\ numericAmount[1] <= 0)
           THEN rejected("amount")
           ELSE IF isNaN(numericAmount) THEN rejected("number")
           ELSE IF paidBy = "" THEN rejected("payer")
           ELSE /\ Len(stored) < MaxStored
                /\ \E now \in Clock :
                      AddExpense([amount |-> numericAmount[1],
                                  paidBy |-> paidBy,
                                  category |-> category], now)
                /\ lastError' = ""
                /\ UNCHANGED <<trips, activeTripId>>

handleAddExpenseSubmit ==
    \E amount \in AmountTexts, paidBy \in Range(participants) \cup {""},
       category \in FormCategories :
        AddExpenseSubmit(amount, paidBy, category)

\* handleDeleteExpense(expenseId), with the answer to window.confirm
DeleteExpense(expenseId, confirmed) ==
    /\ pc = "done"
    /\ activeTripId # NoTrip
    /\ \E i \in 1..Len(expenses) : expenses[i].id = expenseId
    /\ IF ~confirmed THEN UNCHANGED vars
       ELSE /\ stored' = SelectSeq(stored, LAMBDA e : e.id # expenseId)
            /\ Rerender(stored')
            /\ UNCHANGED <<trips, activeTripId, lastError>>

handleDeleteExpense ==
    \E expenseId \in Clock, confirmed \in BOOLEAN :
        DeleteExpense(expenseId, confirmed)

\* handleAddExpense called while no trip view is mounted (the form, its
\* only caller while one is mounted, is handleAddExpenseSubmit)
handleAddExpense ==
    /\ pc = "dashboard"
    /\ \E expenseData \in DirectData, now \in Clock :
          AddExpense(expenseData, now)
    /\ UNCHANGED <<trips, activeTripId, lastError>>

\* variant: the expenses of the deleted trip are kept
WithoutTripKept(st, tripId) == st

\* prev.filter(e => e.tripId !== tripId)
WithoutTrip(st, tripId) == SelectSeq(st, LAMBDA e : e.tripId # tripId)

\* handleDeleteTrip(tripId), with the answer to window.confirm
DeleteTrip(tripId, confirmed) ==
    /\ pc \in {"dashboard", "done"}
    /\ \E i \in 1..Len(trips) : trips[i].id = tripId
    /\ IF ~confirmed THEN UNCHANGED vars
       ELSE /\ trips' = SelectSeq(trips, LAMBDA t : t.id # tripId)
            /\ stored' = WithoutTrip(stored, tripId)
            /\ IF activeTripId = tripId
               THEN /\ activeTripId' = NoTrip
                    /\ lastError' = ""
                    /\ Unmount
               ELSE /\ UNCHANGED <<activeTripId, lastError>>
                    /\ IF pc = "done" THEN Rerender(stored')
                       ELSE UNCHANGED <<participants, expenses,
                                        totalTripCost, expensesByCategory,
                                        expensesByParticipant, balances,
                                        debtors, creditors, dIdx, cIdx,
                                        payments, iters, pc>>

handleDeleteTrip ==
    \E tripId \in Clock, confirmed \in BOOLEAN :
        DeleteTrip(tripId, confirmed)

NextApp ==
    \/ handleCreateTrip
    \/ OpenTrip
    \/ navigateBack
    \/ handleAddExpenseSubmit
    \/ handleAddExpense
    \/ handleDeleteExpense
    \/ handleDeleteTrip
    \/ Aggregate
    \/ SettleGuard
    \/ SettleStart
    \/ LoopStep
    \/ LoopExit

\* The application, started with nothing stored
SpecApp == InitApp /\ [][NextApp]_vars

-----------------------------------------------------------------------------
(* Quantities the properties are stated in *)

N == Len(participants)

\* balance[p] of the settlement code, times N
Bal(p) == BalanceOf(expensesByParticipant, totalTripCost, N, p)

Credit(p) == IF Bal(p) > 0 THEN Bal(p) ELSE 0

RECURSIVE SumOver(_, _)
SumOver(f(_), s) == IF s = <<>> THEN 0 ELSE f(Head(s)) + SumOver(f, Tail(s))

Amount(pay) == pay.amount
Second(e) == e[2]

PaidOut(p) == SumOver(Amount, SelectSeq(payments, LAMBDA x : x.from = p))
ReceivedBy(p) == SumOver(Amount, SelectSeq(payments, LAMBDA x : x.to = p))

\* balance of p after every returned payment has been applied
Residual(p) == Bal(p) + PaidOut(p) - ReceivedBy(p)

\* the computation went past the guard clause
Matched == pc \in {"loop", "done"} /\ ~ReturnsEarly(N, totalTripCost)

Finished == pc = "done" /\ ~ReturnsEarly(N, totalTripCost)

HasDuplicateNames == Cardinality(Range(participants)) < N

\* debtors and creditors as first computed, before the in-place updates
Debtors0 == Debtors(balances, N)
Creditors0 == Creditors(balances, N)

-----------------------------------------------------------------------------
(* C1: Conservation - the amounts of the returned payments add up to the   *)
(* total credit owed, sum over the participants of max(0, balance[p]), to  *)
(* within the tolerance epsilon * participantCount.                        *)
C1_Conservation ==
    pc = "done" =>
        Abs(SumOver(Amount, payments) - SumOver(Credit, participants))
            <= EPS * N * N

(* C2: after every returned payment is applied, every participant's        *)
(* balance is zero (stated for trips whose participant names are pairwise  *)
(* distinct, where the balances do add up to zero).                        *)
C2_AllBalancesZero ==
    (pc = "done" /\ ~HasDuplicateNames) =>
        \A p \in Range(participants) : Residual(p) = 0

(* C2 (amended): when the matching ends, all debtors or all creditors have *)
(* been moved past, and each party of that side is left by the returned    *)
(* payments with a balance of magnitude at most 2 * epsilon.               *)
C2_ExhaustedSideSettled ==
    Finished =>
        \/ /\ dIdx = Len(debtors)
           /\ \A i \in 1..Len(debtors) :
                 Abs(Residual(debtors[i][1])) <= 2 * EPS * N
        \/ /\ cIdx = Len(creditors)
           /\ \A i \in 1..Len(creditors) :
                 Abs(Residual(creditors[i][1])) <= 2 * EPS * N

C2_Witness ==
    /\ Finished
    /\ Len(payments) >= 2
    /\ \E p \in Range(participants) : Residual(p) # 0

(* C3: Balance-sum invariant - the balances of the participants add up to  *)
(* zero, to within epsilon * participantCount.                             *)
C3_BalanceSum ==
    pc # "render" => Abs(SumOver(Bal, participants)) <= EPS * N * N

(* C4: Guard clause - with fewer than 2 participants, or a total expense   *)
(* sum of zero, the computation returns the empty payment list without     *)
(* running the matching, whatever the per-participant totals are.          *)
C4_GuardReturnsEmpty ==
    (pc = "done" /\ (N < 2 \/ totalTripCost = 0)) =>
        payments = <<>> /\ iters = 0

C4_Witness ==
    /\ pc = "done"
    /\ N >= 2
    /\ totalTripCost = 0
    /\ \E k \in DOMAIN expensesByParticipant : expensesByParticipant[k] # 0
    /\ payments = <<>>

(* C5: Positivity - every payment in the list has an amount strictly       *)
(* greater than epsilon.                                                   *)
C5_Positivity ==
    \A i \in 1..Len(payments) : payments[i].amount > EPS * N

\* a transfer of exactly epsilon was matched and not emitted
C5_Witness ==
    /\ pc = "done"
    /\ payments # <<>>
    /\ iters > Len(payments)

(* C6: No self-payment - no payment has from equal to to.                  *)
C6_NoSelfPayment ==
    \A i \in 1..Len(payments) : payments[i].from # payments[i].to

C6_Witness ==
    /\ pc = "done"
    /\ HasDuplicateNames
    /\ payments # <<>>

(* C7: the matching loop runs at most debtors.length + creditors.length - 1 *)
(* times, for every input (stated for participant lists with pairwise     *)
(* distinct names).                                                        *)
C7_IterationBound ==
    (Matched /\ ~HasDuplicateNames) =>
        iters <= Len(debtors) + Len(creditors) - 1

(* C7 (amended): the loop runs at most debtors.length + creditors.length   *)
(* - 1 times when there is a debtor or a creditor, and not at all when     *)
(* both lists are empty.                                                   *)
C7_IterationBoundNonEmpty ==
    Matched =>
        IF Len(debtors) + Len(creditors) = 0 THEN iters = 0
        ELSE iters <= Len(debtors) + Len(creditors) - 1

\* the bound is attained on an input with a payer outside the trip
C7_Witness ==
    /\ pc = "done"
    /\ \E i \in 1..Len(expenses) : expenses[i].paidBy \notin Range(participants)
    /\ iters >= 2
    /\ iters = Len(debtors) + Len(creditors) - 1

RECURSIVE SumSet(_, _)
SumSet(f(_), S) ==
    IF S = {} THEN 0
    ELSE LET x == CHOOSE y \in S : TRUE IN f(x) + SumSet(f, S \ {x})

\* the entries of balances that are not zero, and the largest number of
\* groups, each adding up to zero, they can be split into: settling a group
\* of k parties takes k - 1 payments and no fewer
Unsettled == {i \in 1..Len(balances) : balances[i][2] # 0}
EntryBalance(i) == balances[i][2]

RECURSIVE MaxZeroGroups(_)
MaxZeroGroups(S) ==
    IF S = {} THEN 0
    ELSE LET x == CHOOSE y \in S : TRUE
             groups == {G \in SUBSET S : x \in G /\ SumSet(EntryBalance, G) = 0}
             best(G) == 1 + MaxZeroGroups(S \ G)
         IN  CHOOSE m \in {best(G) : G \in groups} :
                 \A G \in groups : best(G) <= m

\* fewest payments of any list that brings every balance to zero
MinPayments == Cardinality(Unsettled) - MaxZeroGroups(Unsettled)

(* C8: the returned list is of minimal size - no list of payments that     *)
(* brings all balances to zero has fewer payments.                         *)
C8_MinimalSize ==
    (Finished /\ SumSet(EntryBalance, Unsettled) = 0) =>
        Len(payments) <= MinPayments

(* C8 (amended): the returned list never has more than debtors.length +    *)
(* creditors.length - 1 payments (none when both lists are empty); it is   *)
(* not always of minimal size.                                             *)
C8_AtMostPartiesMinusOne ==
    Finished =>
        IF Len(debtors) + Len(creditors) = 0 THEN payments = <<>>
        ELSE Len(payments) <= Len(debtors) + Len(creditors) - 1

\* a returned list that is longer than the shortest settling list
C8_Witness ==
    /\ Finished
    /\ SumSet(EntryBalance, Unsettled) = 0
    /\ Len(payments) > MinPayments
    /\ Len(payments) = Len(debtors) + Len(creditors) - 1

AbsentFromTotals(p) == p \notin DOMAIN expensesByParticipant

EntryOf(p) == CHOOSE i \in 1..Len(balances) : balances[i][1] = p

InPayment(p) ==
    \E i \in 1..Len(payments) : payments[i].from = p \/ payments[i].to = p

C10_SingleCreditor ==
    ( /\ Finished
      /\ Len(Creditors0) = 1
      /\ Len(Debtors0) >= 1
      /\ SumOver(Second, balances) = 0
      /\ \A i \in 1..Len(balances) : Abs(balances[i][2]) > EPS * N )
    => /\ Len(payments) = Len(Debtors0)
       /\ \A i \in 1..Len(payments) :
             payments[i] = [from |-> Debtors0[i][1],
                            to |-> Creditors0[1][1],
                            amount |-> -Debtors0[i][2]]

C10_Witness ==
    /\ Finished
    /\ Len(Creditors0) = 1
    /\ Len(Debtors0) >= 2
    /\ SumOver(Second, balances) = 0
    /\ \A i \in 1..Len(balances) : Abs(balances[i][2]) > EPS * N
    /\ Len(payments) = Len(Debtors0)

\* position of a name in the participant list (first appearance)
ListPosition(p) ==
    CHOOSE i \in 1..N :
        participants[i] = p /\ \A j \in 1..(i - 1) : participants[j] # p

\* debtors (or creditors) i < j started from the same balance
Tied(list, i, j) ==
    /\ i < j
    /\ balances[EntryOf(list[i][1])][2] = balances[EntryOf(list[j][1])][2]

(* C11: two debtors, or two creditors, with equal balances are processed   *)
(* in the order in which they appear in the participant list (stated for   *)
(* participant lists with pairwise distinct names).                        *)
C11_TiesInListOrder ==
    (Matched /\ ~HasDuplicateNames) =>
        \A list \in {debtors, creditors} :
            \A i, j \in 1..Len(list) :
                Tied(list, i, j) =>
                    ListPosition(list[i][1]) < ListPosition(list[j][1])

(* C11 (amended): two debtors, or two creditors, with equal balances are   *)
(* processed in the order of their keys in Object.entries(balances):       *)
(* integer-like names first in ascending numeric order, then the other     *)
(* names in order of first appearance in the participant list.             *)
C11_TiesInKeyOrder ==
    Matched =>
        \A list \in {debtors, creditors} :
            \A i, j \in 1..Len(list) :
                Tied(list, i, j) => EntryOf(list[i][1]) < EntryOf(list[j][1])

\* two tied debtors, each of whom pays
C11_Witness ==
    /\ pc = "done"
    /\ \E i, j \in 1..Len(debtors) : Tied(debtors, i, j)
    /\ Len(payments) >= 2

\* the entries of balances within epsilon of zero
WithinEpsilon == {i \in 1..Len(balances) : Abs(balances[i][2]) <= EPS * N}

(* C12: a participant whose balance lies within epsilon of zero is in      *)
(* neither the debtor nor the creditor list and is in no payment; when     *)
(* every participant paid exactly the average, no payment is returned.     *)
C12_WithinEpsilonLeftOut ==
    /\ Matched =>
           \A i \in WithinEpsilon :
               /\ balances[i][1] \notin {debtors[k][1] : k \in 1..Len(debtors)}
               /\ balances[i][1] \notin
                      {creditors[k][1] : k \in 1..Len(creditors)}
               /\ ~InPayment(balances[i][1])
    /\ (pc = "done" /\ \A p \in Range(participants) : Bal(p) = 0) =>
           payments = <<>>

\* a balance that is not zero but within epsilon, next to a real payment
C12_Witness ==
    /\ pc = "done"
    /\ payments # <<>>
    /\ \E i \in WithinEpsilon : balances[i][2] < 0

\* the aggregates of the current render have been computed
Aggregated == pc \in {"aggregated", "loop", "done"}

InCategory(c) == SelectSeq(expenses, LAMBDA e : e.category = c)
PaidBy(p) == SelectSeq(expenses, LAMBDA e : e.paidBy = p)

(* C13: the per-category totals mapping is total over the category         *)
(* enumeration: for every expense list every category is a key, a category *)
(* without expenses maps to 0, and each category's value is the sum of the *)
(* amounts of the expenses in that category.                               *)
C13_CategoryTotals ==
    Aggregated =>
        \A c \in Range(CATEGORIES) :
            /\ c \in DOMAIN expensesByCategory
            /\ InCategory(c) = <<>> => expensesByCategory[c] = 0
            /\ expensesByCategory[c] = SumOver(Amount, InCategory(c))

\* one category with two expenses, the other categories with none
C13_Witness ==
    /\ pc = "done"
    /\ \E c \in Range(CATEGORIES) :
          /\ c # CATEGORIES[1]
          /\ Len(InCategory(c)) = 2
          /\ expensesByCategory[c] = 55
          /\ \A d \in Range(CATEGORIES) \ {c} : expensesByCategory[d] = 0

(* C14: the per-participant totals mapping has every participant of the    *)
(* trip as a key, maps a participant who paid nothing to 0, and each       *)
(* participant's value is the sum of the amounts of the expenses whose     *)
(* paidBy is that participant.                                             *)
C14_ParticipantTotals ==
    Aggregated =>
        \A p \in Range(participants) :
            /\ p \in DOMAIN expensesByParticipant
            /\ PaidBy(p) = <<>> => expensesByParticipant[p] = 0
            /\ expensesByParticipant[p] = SumOver(Amount, PaidBy(p))

\* one participant paid twice, another paid nothing
C14_Witness ==
    /\ pc = "done"
    /\ \E p, q \in Range(participants) :
          /\ Len(PaidBy(p)) = 2
          /\ expensesByParticipant[p] = 60
          /\ PaidBy(q) = <<>>
          /\ expensesByParticipant[q] = 0

RECURSIVE RunLoop(_, _, _, _, _, _)
\* the while loop of settledPayments, run to its end
RunLoop(ds, cs, d, c, pays, n) ==
    IF ~(d < Len(ds) /\ c < Len(cs)) THEN pays
    ELSE LET transfer == Transfer(ds[d + 1][2], cs[c + 1][2])
             dNew == ds[d + 1][2] + transfer
             cNew == cs[c + 1][2] - transfer
         IN  RunLoop([ds EXCEPT ![d + 1] = <<ds[d + 1][1], dNew>>],
                     [cs EXCEPT ![c + 1] = <<cs[c + 1][1], cNew>>],
                     IF Settled(dNew, n) THEN d + 1 ELSE d,
                     IF Settled(cNew, n) THEN c + 1 ELSE c,
                     IF Emits(transfer, n)
                     THEN Append(pays, [from |-> ds[d + 1][1],
                                        to |-> cs[c + 1][1],
                                        amount |-> transfer])
                     ELSE pays,
                     n)

\* the value of settledPayments for a participant list and an expense list
SettledPayments(parts, exps) ==
    LET total == SumAmounts(exps)
        bal == BalanceEntries(ByParticipant(exps, parts), total, parts)
    IN  IF ReturnsEarly(Len(parts), total) THEN <<>>
        ELSE RunLoop(Debtors(bal, Len(parts)), Creditors(bal, Len(parts)),
                     0, 0, <<>>, Len(parts))

\* what the stored trips and expenses give for the active trip
CurrentParticipants == ActiveTrip(trips, activeTripId)[1].participants
CurrentExpenses == ActiveTripExpenses(stored, activeTripId)

(* C16: No staleness - after any sequence of add-expense and               *)
(* delete-expense operations, the aggregates and the settlement read for   *)
(* the active trip are the values computed from the current expense list   *)
(* and participant list.                                                   *)
C16_NoStaleness ==
    pc = "done" =>
        /\ participants = CurrentParticipants
        /\ expenses = CurrentExpenses
        /\ totalTripCost = SumAmounts(CurrentExpenses)
        /\ expensesByCategory = ByCategory(CurrentExpenses)
        /\ expensesByParticipant =
               ByParticipant(CurrentExpenses, CurrentParticipants)
        /\ payments = SettledPayments(CurrentParticipants, CurrentExpenses)

\* a settlement is shown for a trip while another trip has an expense too
C16_Witness ==
    /\ pc = "done"
    /\ payments # <<>>
    /\ expenses # <<>>
    /\ Len(expenses) < Len(stored)

\* s without its i-th element
Without(s, i) ==
    [j \in 1..(Len(s) - 1) |-> IF j < i THEN s[j] ELSE s[j + 1]]

(* C17: a confirmed delete-expense(id) removes exactly one expense, the    *)
(* one created with that id, and leaves every other stored expense present *)
(* and unchanged.                                                          *)
C17_DeleteRemovesOne ==
    [][\A expenseId \in Clock :
          DeleteExpense(expenseId, TRUE) =>
              \E i \in 1..Len(stored) :
                  /\ stored[i].id = expenseId
                  /\ stored' = Without(stored, i)]_vars

\* amount texts that are a decimal numeral greater than zero, once trimmed
\* and with the comma read as the decimal point
PositiveNumerals == {"10", "10.0"}

StoredValid ==
    \A i \in 1..Len(stored) : stored[i].amount > 0 /\ stored[i].paidBy # ""

(* C18: every stored expense has amount > 0 and a non-empty paidBy, and a  *)
(* submission with an empty, non-numeric, zero or negative amount or an    *)
(* empty payer is rejected with a form error and leaves the expense list   *)
(* unchanged.                                                              *)
C18_ValidatedOnly ==
    /\ []StoredValid
    /\ [][\A amount \in AmountTexts, paidBy \in Range(participants) \cup {""},
             category \in FormCategories :
              ( /\ AddExpenseSubmit(amount, paidBy, category)
                /\ \/ ReplaceComma(Trim(amount)) \notin PositiveNumerals
                   \/ paidBy = "" )
              => (stored' = stored /\ lastError' # "")]_vars

(* C19: every trip created through create-trip has pairwise distinct       *)
(* participant names, so the participant count used for the average share  *)
(* is the number of balance entries.                                       *)
C19_UniqueNames ==
    /\ \A i \in 1..Len(trips) :
           Cardinality(Range(trips[i].participants))
               = Len(trips[i].participants)
    /\ pc = "loop" => Len(balances) = N

(* C20: every stored trip has at least one participant and no participant  *)
(* with an empty name; a create-trip attempt with an empty trip name or an *)
(* empty participant list is rejected and leaves the trip list unchanged.  *)
C20_AtLeastOneParticipant ==
    /\ [](\A i \in 1..Len(trips) :
             /\ Len(trips[i].participants) >= 1
             /\ \A k \in 1..Len(trips[i].participants) :
                    trips[i].participants[k] # "")
    /\ [][\/ (trips' = trips /\ lastError' # "")
          \/ \A name \in TripNames, tokens \in ParticipantTexts :
                ~ ( /\ CreateTrip(name, tokens)
                    /\ (Trim(name) = "" \/ ParticipantNames(tokens) = <<>>) )
         ]_vars

\* an attempt was rejected while a trip is stored
C20_Witness ==
    /\ trips # <<>>
    /\ pc = "dashboard"
    /\ lastError \in {"trip", "participants"}

\* a step of the computation of settledPayments
SettlementStep == pc \in {"aggregated", "loop"}

(* C21: the settlement computation does not modify its inputs: the         *)
(* per-participant totals mapping, the participant list and the expense    *)
(* list are the same after every step of it, and the in-place subtraction  *)
(* of the matching loop changes only the debtor and creditor entries, not  *)
(* the balances they were taken from.                                      *)
C21_InputsUnchanged ==
    [][SettlementStep =>
          /\ expensesByParticipant' = expensesByParticipant
          /\ participants' = participants
          /\ expenses' = expenses
          /\ totalTripCost' = totalTripCost
          /\ pc = "loop" => balances' = balances]_vars

\* the loop has rewritten debtor entries and the inputs are as aggregated
C21_Witness ==
    /\ pc = "done"
    /\ iters >= 2
    /\ debtors # Debtors(balances, N)
    /\ expensesByParticipant = ByParticipant(expenses, participants)
    /\ balances = BalanceEntries(expensesByParticipant, totalTripCost,
                                 participants)

\* the loop is about to run its body
AtMatch == pc = "loop" /\ dIdx < Len(debtors) /\ cIdx < Len(creditors)

\* balance of a party as first computed
InitialBalance(p) == balances[EntryOf(p)][2]

(* C22: at every iteration the matched pair is the debtor with the largest *)
(* remaining debt and the creditor with the largest remaining credit among *)
(* all parties not yet settled, also after a party has been partially      *)
(* settled (stated for participant lists with pairwise distinct names).    *)
C22_LargestRemaining ==
    (AtMatch /\ ~HasDuplicateNames) =>
        /\ \A j \in (dIdx + 1)..Len(debtors) :
               debtors[dIdx + 1][2] <= debtors[j][2]
        /\ \A j \in (cIdx + 1)..Len(creditors) :
               creditors[cIdx + 1][2] >= creditors[j][2]

(* C22 (amended): at every iteration the matched pair is the first debtor  *)
(* and the first creditor, in the initial sorted order, that the cursors   *)
(* have not moved past: every party before a cursor is settled to within   *)
(* epsilon, every party after it still has its initial balance, and the    *)
(* matched party has the largest initial debt (credit) of those not moved  *)
(* past - not always the largest remaining one. The transfer is            *)
(* min(|debtor remaining balance|, creditor remaining balance).            *)
C22_FirstNotPassed ==
    /\ [](AtMatch =>
             /\ \A j \in 1..dIdx : Abs(debtors[j][2]) < EPS * N
             /\ \A j \in 1..cIdx : Abs(creditors[j][2]) < EPS * N
             /\ \A j \in (dIdx + 2)..Len(debtors) :
                    /\ debtors[j][2] = InitialBalance(debtors[j][1])
                    /\ InitialBalance(debtors[dIdx + 1][1]) <= debtors[j][2]
             /\ \A j \in (cIdx + 2)..Len(creditors) :
                    /\ creditors[j][2] = InitialBalance(creditors[j][1])
                    /\ InitialBalance(creditors[cIdx + 1][1])
                           >= creditors[j][2])
    /\ [][AtMatch =>
             LET moved == debtors'[dIdx + 1][2] - debtors[dIdx + 1][2]
             IN  /\ moved = creditors[cIdx + 1][2] - creditors'[cIdx + 1][2]
                 /\ moved <= -debtors[dIdx + 1][2]
                 /\ moved <= creditors[cIdx + 1][2]
                 /\ \/ moved = -debtors[dIdx + 1][2]
                    \/ moved = creditors[cIdx + 1][2]]_vars

\* a partially settled debtor is matched again although the next debtor
\* owes more
C22_Witness ==
    /\ AtMatch
    /\ ~HasDuplicateNames
    /\ dIdx + 2 <= Len(debtors)
    /\ debtors[dIdx + 1][2] > debtors[dIdx + 2][2]
    /\ debtors[dIdx + 1][2] # InitialBalance(debtors[dIdx + 1][1])

\* the smallest and the largest of the balances as first computed
MostNegative(p) ==
    \A i \in 1..Len(balances) : InitialBalance(p) <= balances[i][2]
MostPositive(p) ==
    \A i \in 1..Len(balances) : InitialBalance(p) >= balances[i][2]

(* C23: payments are in the order generated: the first goes from the       *)
(* participant with the most negative balance to the one with the most     *)
(* positive balance; along the list the from participants are in           *)
(* non-increasing order of initial debt and the to participants in         *)
(* non-increasing order of initial credit; a party the list has moved past *)
(* never appears again.                                                    *)
C23_OrderGenerated ==
    Matched =>
        /\ payments # <<>> =>
               /\ MostNegative(payments[1].from)
               /\ MostPositive(payments[1].to)
        /\ \A i, j \in 1..Len(payments) :
               i < j =>
                   /\ InitialBalance(payments[i].from)
                          <= InitialBalance(payments[j].from)
                   /\ InitialBalance(payments[i].to)
                          >= InitialBalance(payments[j].to)
        /\ \A i, j, k \in 1..Len(payments) :
               (i < j /\ j < k) =>
                   /\ payments[i].from = payments[k].from
                          => payments[j].from = payments[i].from
                   /\ payments[i].to = payments[k].to
                          => payments[j].to = payments[i].to

\* three payments, with two debtors of different debt and two creditors of
\* different credit
C23_Witness ==
    /\ pc = "done"
    /\ Len(payments) >= 3
    /\ \E i, j \in 1..Len(payments) :
          InitialBalance(payments[i].from) < InitialBalance(payments[j].from)
    /\ \E i, j \in 1..Len(payments) :
          InitialBalance(payments[i].to) > InitialBalance(payments[j].to)

(* C25: No over-settlement - throughout the matching loop a debtor's       *)
(* remaining balance never becomes positive and a creditor's never becomes *)
(* negative; the total paid by a participant never exceeds their initial   *)
(* debt and the total received never exceeds their initial credit.         *)
C25_NoOverSettlement ==
    Matched =>
        /\ \A i \in 1..Len(debtors) : debtors[i][2] <= 0
        /\ \A i \in 1..Len(creditors) : creditors[i][2] >= 0
        /\ \A i \in 1..Len(balances) :
               /\ PaidOut(balances[i][1])
                      <= (IF balances[i][2] < 0 THEN -balances[i][2] ELSE 0)
               /\ ReceivedBy(balances[i][1])
                      <= (IF balances[i][2] > 0 THEN balances[i][2] ELSE 0)

\* a debtor has paid all of its debt in two payments, and a creditor is
\* left with part of its credit
C25_Witness ==
    /\ pc = "done"
    /\ \E i \in 1..Len(debtors) :
          /\ debtors[i][2] = 0
          /\ PaidOut(debtors[i][1]) = -InitialBalance(debtors[i][1])
          /\ Cardinality({k \in 1..Len(payments) :
                             payments[k].from = debtors[i][1]}) = 2
    /\ \E i \in 1..Len(creditors) : creditors[i][2] > 0

(* C26: every iteration of the matching loop emits exactly one payment, so *)
(* the number of payments equals the number of iterations (stated for      *)
(* participant lists with pairwise distinct names).                        *)
C26_OnePaymentPerIteration ==
    (Matched /\ ~HasDuplicateNames) => Len(payments) = iters

(* C26 (amended): the transfer of every iteration is at least epsilon; the *)
(* iteration emits one payment of that amount when the transfer exceeds    *)
(* epsilon, and none when it is exactly epsilon, in which case epsilon is  *)
(* subtracted from both balances without a payment. The number of payments *)
(* is at most the number of iterations.                                    *)
C26_PaymentUnlessEpsilon ==
    /\ [](Matched => Len(payments) <= iters)
    /\ [][AtMatch =>
             LET moved == debtors'[dIdx + 1][2] - debtors[dIdx + 1][2]
             IN  /\ moved >= EPS * N
                 /\ iters' = iters + 1
                 /\ IF moved > EPS * N
                    THEN payments' =
                             Append(payments,
                                    [from |-> debtors[dIdx + 1][1],
                                     to |-> creditors[cIdx + 1][1],
                                     amount |-> moved])
                    ELSE payments' = payments]_vars

\* an iteration moved exactly epsilon and emitted nothing
C26_Witness ==
    /\ pc = "done"
    /\ ~HasDuplicateNames
    /\ Len(payments) >= 1
    /\ iters = Len(payments) + 1
    /\ \E i \in 1..Len(creditors) :
          InitialBalance(creditors[i][1]) - ReceivedBy(creditors[i][1])
              = EPS * N

(* C27: no ordered pair (from, to) occurs more than once in a returned     *)
(* settlement list; every iteration advances at least one cursor.          *)
C27_NoRepeatedPair ==
    /\ [](\A i, j \in 1..Len(payments) :
             (payments[i].from = payments[j].from
                 /\ payments[i].to = payments[j].to) => i = j)
    /\ [][AtMatch => dIdx' + cIdx' > dIdx + cIdx]_vars

\* a debtor that pays two creditors and a creditor paid by two debtors
C27_Witness ==
    /\ pc = "done"
    /\ \E i, j \in 1..Len(payments) :
          payments[i].from = payments[j].from /\ payments[i].to # payments[j].to
    /\ \E i, j \in 1..Len(payments) :
          payments[i].to = payments[j].to /\ payments[i].from # payments[j].from

\* sum of all values of a mapping
ValuesSum(m) == SumSet(LAMBDA k : m[k], DOMAIN m)

(* C28: for every expense list the sum of all values of the per-category   *)
(* mapping, the sum of all values of the per-participant mapping and the   *)
(* total trip cost are equal, also when an expense's category or payer is  *)
(* not among the initialised keys.                                         *)
C28_SumsAgree ==
    Aggregated =>
        /\ ValuesSum(expensesByCategory) = totalTripCost
        /\ ValuesSum(expensesByParticipant) = totalTripCost

\* an expense of a category outside the enumeration paid by somebody who
\* is not a participant
C28_Witness ==
    /\ pc = "done"
    /\ totalTripCost > 0
    /\ \E i \in 1..Len(expenses) :
          /\ expenses[i].category \notin Range(CATEGORIES)
          /\ expenses[i].paidBy \notin Range(participants)
    /\ \E i \in 1..Len(expenses) :
          /\ expenses[i].category \in Range(CATEGORIES)
          /\ expenses[i].paidBy \in Range(participants)

\* the expenses of trip t, in storage order
ExpensesOfTrip(st, t) == SelectSeq(st, LAMBDA e : e.tripId = t)

\* C24: adding an expense while no trip is active changes no stored
\* expense; while a trip is active it appends exactly one expense, carrying
\* the given data and the active trip's id, after the expenses already
\* stored, which stay as they were.
C24_AddOnlyToActiveTrip ==
    [][\A expenseData \in ExpenseData, now \in Clock :
          AddExpense(expenseData, now) =>
             IF activeTripId = NoTrip
             THEN stored' = stored
             ELSE /\ Len(stored') = Len(stored) + 1
                  /\ SubSeq(stored', 1, Len(stored)) = stored
                  /\ stored'[Len(stored')] =
                        [id |-> now, tripId |-> activeTripId,
                         amount |-> expenseData.amount,
                         paidBy |-> expenseData.paidBy,
                         category |-> expenseData.category]]_vars

\* two expenses added under two different active trips are stored, and no
\* trip is active, where a further add stores nothing
C24_Witness ==
    /\ pc = "dashboard"
    /\ activeTripId = NoTrip
    /\ Len(stored) = 2
    /\ stored[1].tripId # stored[2].tripId

\* C29: a confirmed deletion of trip t removes every trip and every expense
\* carrying t, keeps every other trip and expense as it was and in order,
\* and deselects the active trip exactly when it was t; a declined deletion
\* changes nothing.  (A confirmed deletion always changes the trip list,
\* the handler being reached from a listed trip.)
C29_DeleteTripCascades ==
    [][\A t \in Clock :
          /\ (trips' # trips /\ DeleteTrip(t, TRUE)) =>
                /\ \A i \in 1..Len(trips') : trips'[i].id # t
                /\ \A i \in 1..Len(stored') : stored'[i].tripId # t
                /\ trips' = SelectSeq(trips, LAMBDA x : x.id # t)
                /\ stored' = SelectSeq(stored, LAMBDA e : e.tripId # t)
                /\ activeTripId' =
                      IF activeTripId = t THEN NoTrip ELSE activeTripId
                /\ activeTripId = t => pc' = "dashboard"
          /\ DeleteTrip(t, FALSE) =>
                /\ trips' = trips
                /\ stored' = stored
                /\ activeTripId' = activeTripId]_vars

\* the active trip and another trip both hold expenses: deleting either
\* must remove its own expenses and keep the other's
C29_Witness ==
    /\ pc = "done"
    /\ Len(trips) = 2
    /\ trips[1].id # trips[2].id
    /\ ExpensesOfTrip(stored, trips[1].id) # << >>
    /\ ExpensesOfTrip(stored, trips[2].id) # << >>

\* C30: adding or deleting an expense in the active trip leaves the
\* expenses of every other trip, from which alone that trip's totals,
\* balances and settlement are computed, as they were.
C30_OtherTripsUntouched ==
    [][\A expenseData \in ExpenseData, now \in Clock :
          (\/ AddExpense(expenseData, now)
           \/ DeleteExpense(now, TRUE)) =>
             \A t \in Clock \ {activeTripId} :
                ExpensesOfTrip(stored', t) = ExpensesOfTrip(stored, t)]_vars
====
